---- MODULE Spec2Model ----
(***************************************************************************)
(* json-gator: a path-indexed JSON document with scripted transformations, *)
(* a transformation cache, a cycle guard, node aliases and an MQTT bridge.  *)
(*                                                                         *)
(* Strings are sequences of one-character strings, so that the string      *)
(* functions the program uses (HasPrefix, TrimLeft, Trim, Split, Join)      *)
(* are computed character by character as the Go library computes them.    *)
(***************************************************************************)
EXTENDS Integers, Sequences, FiniteSets, TLC

----------------------------------------------------------------------------
(* strings *)

Range(s) == {s[i] : i \in 1..Len(s)}

Sep == <<"/">>

\* strings.HasPrefix(s, prefix)
HasPrefix(s, prefix) ==
    /\ Len(prefix) <= Len(s)
    /\ SubSeq(s, 1, Len(prefix)) = prefix

\* strings.TrimLeft(s, cutset): drops every leading character that occurs in cutset
RECURSIVE TrimLeft(_, _)
TrimLeft(s, cutset) ==
    IF s # <<>> /\ Head(s) \in Range(cutset)
    THEN TrimLeft(Tail(s), cutset)
    ELSE s

RECURSIVE TrimRight(_, _)
TrimRight(s, cutset) ==
    IF s # <<>> /\ s[Len(s)] \in Range(cutset)
    THEN TrimRight(SubSeq(s, 1, Len(s) - 1), cutset)
    ELSE s

\* strings.Trim(s, cutset)
Trim(s, cutset) == TrimRight(TrimLeft(s, cutset), cutset)

\* strings.Split(s, "/"): always at least one token, Split("") = [""]
RECURSIVE SplitFrom(_, _)
SplitFrom(s, cur) ==
    IF s = <<>> THEN <<cur>>
    ELSE IF Head(s) = "/" THEN <<cur>> \o SplitFrom(Tail(s), <<>>)
    ELSE SplitFrom(Tail(s), Append(cur, Head(s)))

Split(s) == SplitFrom(s, <<>>)

\* strings.Join(tokens, "/")
RECURSIVE Join(_)
Join(tokens) ==
    IF tokens = <<>> THEN <<>>
    ELSE IF Len(tokens) = 1 THEN tokens[1]
    ELSE tokens[1] \o Sep \o Join(Tail(tokens))

GetStrTokens(path, ignorePrefix) ==
    LET trimmedPath == Trim(TrimLeft(path, ignorePrefix), Sep)
    IN  IF trimmedPath # <<>> THEN Split(trimmedPath) ELSE <<>>

----------------------------------------------------------------------------
(* JSON values: the Go values an "any" of the document can hold *)

Null == [t |-> "null"]
Num(n) == [t |-> "num", n |-> n]
Str(s) == [t |-> "str", s |-> s]
Arr(q) == [t |-> "seq", q |-> q]
Map(m) == [t |-> "map", m |-> m]
\* a nil map[string]any held in an interface: what GetMapData returns with a
\* nil error when the walk reaches a value that is not a map
NilMap == [t |-> "nilmap"]

EmptyMap == [k \in {} |-> Null]

\* the type assertion v.(map[string]any) succeeds for a map and for a nil map
IsMapType(v) == v.t \in {"map", "nilmap"}

\* the entries of a map value; a nil map has none
Entries(v) == IF v.t = "map" THEN v.m ELSE EmptyMap

\* results of the tree functions: a value and an error ("" is nil)
NoErr == ""
ErrNotFound == "not found"
ErrRoot == "expected JSON object for root model update"

\* GetMapData(modelMap, pathTokens); result is the value walked so far
RECURSIVE GetMapData(_, _)
GetMapData(result, pathTokens) ==
    IF pathTokens = <<>> THEN [v |-> result, err |-> NoErr]
    ELSE IF ~IsMapType(result) THEN [v |-> NilMap, err |-> NoErr]
    ELSE IF Head(pathTokens) \notin DOMAIN Entries(result)
         THEN [v |-> Null, err |-> ErrNotFound]
    ELSE GetMapData(Entries(result)[Head(pathTokens)], Tail(pathTokens))

\* the loop of SetMapData on the map "current" (lines 100-125)
RECURSIVE SetIn(_, _, _)
SetIn(current, pathTokens, value) ==
    LET token == Head(pathTokens) IN
    IF Len(pathTokens) = 1 THEN (token :> value) @@ current
    ELSE LET next == IF token \in DOMAIN current /\ current[token].t = "map"
                     THEN current[token].m
                     ELSE EmptyMap
         IN  (token :> Map(SetIn(next, Tail(pathTokens), value))) @@ current

\* SetMapData that leaves the map as it is when the path runs through a value
\* that is not a map
SetMapDataKeepingScalars(modelMap, pathTokens, value) ==
    IF pathTokens = <<>>
    THEN IF IsMapType(value)
         THEN [m |-> Entries(value), err |-> NoErr]
         ELSE [m |-> modelMap, err |-> ErrRoot]
    ELSE IF GetMapData(Map(modelMap), pathTokens).v.t = "nilmap"
    THEN [m |-> modelMap, err |-> NoErr]
    ELSE [m |-> SetIn(modelMap, pathTokens, value), err |-> NoErr]

\* SetMapData that takes any value for the root
SetMapDataAnyRoot(modelMap, pathTokens, value) ==
    IF pathTokens = <<>>
    THEN [m |-> Entries(value), err |-> NoErr]
    ELSE [m |-> SetIn(modelMap, pathTokens, value), err |-> NoErr]

\* SetMapData(modelMap, pathTokens, value): the new map and the error
SetMapData(modelMap, pathTokens, value) ==
    IF pathTokens = <<>>
    THEN IF IsMapType(value)
         THEN [m |-> Entries(value), err |-> NoErr]
         ELSE [m |-> modelMap, err |-> ErrRoot]
    ELSE [m |-> SetIn(modelMap, pathTokens, value), err |-> NoErr]

----------------------------------------------------------------------------
(* the scripting bridge: ctx.RunScript(implementation) with the globals set. *)
(* The interpreter is external; three scripts are interpreted here.          *)

SumScript == <<"a + b">>          \* adds its parameters
FmtScript == <<"$ + self + .00">>  \* formats self as a string
BadScript == <<"throw 0">>        \* always fails

ErrScript == "failed to execute JavaScript"

\* ConvertGoToJavaScript: json.Marshal, then JSON.parse; a nil map marshals as null
ConvertGoToJavaScript(goObj) == IF goObj.t = "nilmap" THEN Null ELSE goObj

RECURSIVE SumOf(_, _)
SumOf(bindings, names) ==
    IF names = {} THEN 0
    ELSE LET k == CHOOSE x \in names : TRUE
             n == IF bindings[k].t = "num" THEN bindings[k].n ELSE 0
         IN  n + SumOf(bindings, names \ {k})

\* the value of the script, or an error; bindings maps parameter names to values
RunScript(implementation, self, bindings) ==
    IF implementation = FmtScript
    THEN [v |-> Str(<<"$", self, ".00">>), err |-> NoErr]
    ELSE IF implementation = SumScript /\ DOMAIN bindings # {}
    THEN IF \A k \in DOMAIN bindings : bindings[k].t \in {"num", "null"}
         THEN [v |-> Num(SumOf(bindings, DOMAIN bindings)), err |-> NoErr]
         ELSE [v |-> Str(<<"concatenation">>), err |-> NoErr]
    ELSE [v |-> Null, err |-> ErrScript]

----------------------------------------------------------------------------
(* DataModel: the transformation engine.  d is the DataModel struct         *)
(* [Model, Transformations, transformationCache, processingPaths]; every    *)
(* method returns [v, err, d, ev]: the value, the error, the struct as the   *)
(* call leaves it, and the paths whose script was run, in order.  ord gives  *)
(* the order in which this call ranges over the maps it iterates.            *)

ErrCircular == "potential circular dependency detected"
ErrFormat == "invalid transformation format"
ErrParam == "parameter must be a string"

Ret(v, err, d, ev) == [v |-> v, err |-> err, d |-> d, ev |-> ev]

\* the maps of a DataModel that was decoded from JSON into a zero struct, not
\* made by NewDataModel: transformationCache and processingPaths are nil, reads
\* of them find nothing and a write panics.  NilPaths is processingPaths then
NilPaths == {<<"nil map">>}
ErrPanic == "panic: assignment to entry in nil map"

\* a transformation definition as decoded from the configuration
Transformation(implementation, parameters) ==
    [t |-> "map", implementation |-> implementation, parameters |-> parameters]

\* ClearCache(paths...) with one path
ClearCache(d, path) ==
    [d EXCEPT !.transformationCache =
        [k \in DOMAIN @ \ {path} |-> @[k]]]

\* ClearCache() with no path: the whole cache
ClearCacheAll(d) == [d EXCEPT !.transformationCache = EmptyMap]

\* the keys of a map in the order this call ranges over them
InOrder(order, keys) == SelectSeq(order, LAMBDA k : k \in keys)

RECURSIVE applyTransformation(_, _, _)
RECURSIVE applyNestedTransformations(_, _, _, _, _)
RECURSIVE GetModelData(_, _, _, _)
RECURSIVE SetParameters(_, _, _, _, _, _)
RECURSIVE ApplyChildren(_, _, _, _, _, _, _)

\* lines 131-148: r is what GetModelData returned for the parameter Head(todo)
SetParameter(r, ord, parameters, todo, global, ev) ==
    IF r.err # NoErr
    THEN Ret(Null, r.err, r.d, ev \o r.ev)
    ELSE SetParameters(r.d, ord, parameters, Tail(todo),
                       (Head(todo) :> ConvertGoToJavaScript(r.v)) @@ global,
                       ev \o r.ev)

\* lines 127-149: the loop over the parameters; todo are the names left
SetParameters(d, ord, parameters, todo, global, ev) ==
    IF todo = <<>> THEN Ret(global, NoErr, d, ev)
    ELSE SetParameter(GetModelData(d, ord, Split(parameters[Head(todo)].s), FALSE),
                      ord, parameters, todo, global, ev)

\* lines 151-165 without the store of line 163
RunTransformationUncached(p, path, implementation, selfValue) ==
    IF p.err # NoErr THEN Ret(Null, p.err, p.d, p.ev)
    ELSE
    LET out == RunScript(implementation, ConvertGoToJavaScript(selfValue), p.v) IN
    IF out.err # NoErr THEN Ret(Null, out.err, p.d, Append(p.ev, path))
    ELSE Ret(out.v, NoErr, p.d, Append(p.ev, path))

\* lines 151-165: the script run with the globals p.v, its result cached
RunTransformation(p, path, implementation, selfValue) ==
    IF p.err # NoErr THEN Ret(Null, p.err, p.d, p.ev)
    ELSE
    LET out == RunScript(implementation, ConvertGoToJavaScript(selfValue), p.v) IN
    IF out.err # NoErr THEN Ret(Null, out.err, p.d, Append(p.ev, path))
    ELSE Ret(out.v, NoErr,
             [p.d EXCEPT !.transformationCache = (path :> out.v) @@ @],
             Append(p.ev, path))

\* the raw value bound to self (lines 108-113); "not found" is no error
SelfValue(self) == IF self.err # NoErr THEN Null ELSE self.v

\* applyTransformation with the raw value of a path that has no transformation
\* kept in the cache as well
TransformationBodyCachingRaw(d, ord, path) ==
    IF path \notin DOMAIN d.Transformations
    THEN LET g == GetMapData(Map(d.Model), Split(path))
         IN  Ret(g.v, g.err,
                 IF g.err = NoErr
                 THEN [d EXCEPT !.transformationCache = (path :> g.v) @@ @]
                 ELSE d,
                 <<>>)
    ELSE
    LET transformation == d.Transformations[path] IN
    IF transformation.t # "map" THEN Ret(Null, ErrFormat, d, <<>>)
    ELSE IF transformation.implementation.t # "str" THEN Ret(Null, ErrFormat, d, <<>>)
    ELSE
    LET params == Entries(transformation.parameters) IN
    IF \E k \in DOMAIN params : params[k].t # "str" THEN Ret(Null, ErrParam, d, <<>>)
    ELSE RunTransformation(
            SetParameters(d, ord, params, InOrder(ord.p, DOMAIN params), EmptyMap, <<>>),
            path, transformation.implementation.s,
            SelfValue(GetMapData(Map(d.Model), Split(path))))

\* lines 64-165: applyTransformation once the path is marked as processed
TransformationBody(d, ord, path) ==
    IF path \notin DOMAIN d.Transformations
    THEN LET g == GetMapData(Map(d.Model), Split(path))
         IN  Ret(g.v, g.err, d, <<>>)
    ELSE
    LET transformation == d.Transformations[path] IN
    IF transformation.t # "map" THEN Ret(Null, ErrFormat, d, <<>>)
    ELSE IF transformation.implementation.t # "str" THEN Ret(Null, ErrFormat, d, <<>>)
    ELSE
    LET params == Entries(transformation.parameters) IN
    IF \E k \in DOMAIN params : params[k].t # "str" THEN Ret(Null, ErrParam, d, <<>>)
    ELSE RunTransformation(
            SetParameters(d, ord, params, InOrder(ord.p, DOMAIN params), EmptyMap, <<>>),
            path, transformation.implementation.s,
            SelfValue(GetMapData(Map(d.Model), Split(path))))

\* the path deleted from processingPaths before a successful return only
UnmarkOnSuccess(r, path) ==
    IF r.err # NoErr THEN r ELSE [r EXCEPT !.d.processingPaths = @ \ {path}]

\* the deferred delete(d.processingPaths, path) of line 62
Unmark(r, path) == [r EXCEPT !.d.processingPaths = @ \ {path}]

\* applyTransformation(path): cache, cycle guard, then the body
applyTransformation(d, ord, path) ==
    IF path \in DOMAIN d.transformationCache
    THEN Ret(d.transformationCache[path], NoErr, d, <<>>)
    ELSE IF path \in d.processingPaths
    THEN Ret(Null, ErrCircular, d, <<>>)
    ELSE IF d.processingPaths = NilPaths
    THEN Ret(Null, ErrPanic, d, <<>>)       \* line 61 writes the nil map
    ELSE Unmark(TransformationBody(
                    [d EXCEPT !.processingPaths = @ \cup {path}], ord, path),
                path)

\* lines 185-192: r is what applyTransformation returned for Head(todo).
\* resultCopy is the shallow copy; shared are its keys whose value is still the
\* very map object of the document (a Go map is a reference, so writing below
\* such a key writes the document)
ApplyChild(r, ord, path, pathTokens, todo, resultCopy, shared) ==
    LET \* on error the value is nil and the error is only logged
        transformedValue == IF r.err # NoErr THEN Null ELSE r.v
        \* the shared objects as the call left them
        still == {k \in shared :
                    LET g == GetMapData(Map(r.d.Model), Append(pathTokens, k))
                    IN  g.err = NoErr /\ g.v.t = "map"}
        seen == [k \in DOMAIN resultCopy |->
                    IF k \in still
                    THEN GetMapData(Map(r.d.Model), Append(pathTokens, k)).v
                    ELSE resultCopy[k]]
        subPathTokens == GetStrTokens(Head(todo), path)
        set == SetMapData(seen, subPathTokens, transformedValue)
        through == Len(subPathTokens) >= 2 /\ subPathTokens[1] \in still
        model == IF through
                 THEN SetIn(r.d.Model, Append(pathTokens, subPathTokens[1]),
                            set.m[subPathTokens[1]])
                 ELSE r.d.Model
        kept == IF subPathTokens = <<>> THEN (IF set.err = NoErr THEN {} ELSE still)
                ELSE IF through THEN still
                ELSE still \ {subPathTokens[1]}
    IN  IF r.err = ErrPanic THEN Ret(Null, ErrPanic, r.d, r.ev)  \* not an error
        ELSE ApplyChildren([d |-> [r.d EXCEPT !.Model = model], ev |-> r.ev],
                           ord, path, pathTokens, Tail(todo), set.m, kept)

\* lines 182-194: the loop over d.Transformations; todo are the paths left,
\* s.d the struct and s.ev the scripts run so far
ApplyChildren(s, ord, path, pathTokens, todo, resultCopy, shared) ==
    IF todo = <<>> THEN Ret(Map(resultCopy), NoErr, s.d, s.ev)
    ELSE ApplyChild(
            LET r == applyTransformation(s.d, ord, Head(todo))
            IN  [r EXCEPT !.ev = s.ev \o @],
            ord, path, pathTokens, todo, resultCopy, shared)

\* applyNestedTransformations(path, rawData); pathTokens is where rawData was read
applyNestedTransformations(d, ord, path, pathTokens, rawData) ==
    IF ~IsMapType(rawData) THEN applyTransformation(d, ord, path)
    ELSE ApplyChildren(
            [d |-> d, ev |-> <<>>], ord, path, pathTokens,
            InOrder(ord.t, {tp \in DOMAIN d.Transformations : HasPrefix(tp, path)}),
            Entries(rawData),
            {k \in DOMAIN Entries(rawData) : Entries(rawData)[k].t = "map"})

\* lines 201-209: the raw read g answers a raw request
RawData(g) == IF g.err # NoErr THEN Null ELSE g.v

\* GetModelData(pathTokens, raw)
GetModelData(d, ord, pathTokens, raw) ==
    IF raw
    THEN LET g == GetMapData(Map(d.Model), pathTokens)
         IN  Ret(RawData(g), g.err, d, <<>>)
    ELSE applyNestedTransformations(d, ord, Join(pathTokens), pathTokens,
                                    RawData(GetMapData(Map(d.Model), pathTokens)))

\* SetModelData with ClearCache() called with no path
SetModelDataClearingAll(d, pathTokens, value) ==
    LET cleared == ClearCacheAll(d)
        set == SetMapData(cleared.Model, pathTokens, value)
    IN  [d |-> [cleared EXCEPT !.Model = set.m], err |-> set.err]

\* SetModelData(pathTokens, value): [d, err]
SetModelData(d, pathTokens, value) ==
    LET cleared == ClearCache(d, Join(pathTokens))
        set == SetMapData(cleared.Model, pathTokens, value)
    IN  [d |-> [cleared EXCEPT !.Model = set.m], err |-> set.err]

----------------------------------------------------------------------------
(* the write of the HTTP handlers: UpdateModelData and the applyTransformation *)
(* and GetModelData it is built on                                            *)

ErrNotObject == "does not point to an object"
ErrNoTransformation == "did not find a transformation"

\* GetModelData(pathTokens) as UpdateModelData's applyTransformation calls it
RECURSIVE GetModelDataStrict(_, _)
GetModelDataStrict(result, pathTokens) ==
    IF pathTokens = <<>> THEN [v |-> result, err |-> NoErr]
    ELSE IF result.t # "map" THEN [v |-> Null, err |-> ErrNotObject]
    ELSE IF Head(pathTokens) \notin DOMAIN result.m
         THEN [v |-> Null, err |-> ErrNotFound]
    ELSE GetModelDataStrict(result.m[Head(pathTokens)], Tail(pathTokens))

\* the loop over the parameters of applyTransformation(pathTokens, data)
RECURSIVE SetParametersStrict(_, _, _, _)
SetParametersStrict(model, parameters, todo, global) ==
    IF todo = <<>> THEN [v |-> global, err |-> NoErr]
    ELSE LET paramName == Head(todo)
             r == GetModelDataStrict(Map(model), Split(parameters[paramName].s))
         IN  IF r.err # NoErr THEN [v |-> Null, err |-> r.err]
             ELSE SetParametersStrict(model, parameters, Tail(todo),
                                      (paramName :> r.v) @@ global)

\* applyTransformation(pathTokens, data): [v, err, ev]
applyTransformationData(d, ord, pathTokens, data) ==
    LET path == Join(pathTokens) IN
    IF path \notin DOMAIN d.Transformations
    THEN [v |-> data, err |-> ErrNoTransformation, ev |-> <<>>]
    ELSE
    LET transformation == d.Transformations[path] IN
    IF transformation.t # "map" THEN [v |-> Null, err |-> ErrFormat, ev |-> <<>>]
    ELSE IF transformation.implementation.t # "str"
    THEN [v |-> Null, err |-> ErrFormat, ev |-> <<>>]
    ELSE
    LET params == Entries(transformation.parameters) IN
    IF \E k \in DOMAIN params : params[k].t # "str"
    THEN [v |-> Null, err |-> ErrParam, ev |-> <<>>]
    ELSE
    LET p == SetParametersStrict(d.Model, params, InOrder(ord.p, DOMAIN params), EmptyMap) IN
    IF p.err # NoErr THEN [v |-> Null, err |-> p.err, ev |-> <<>>]
    ELSE
    LET out == RunScript(transformation.implementation.s, data, p.v) IN
    IF out.err # NoErr THEN [v |-> Null, err |-> out.err, ev |-> <<path>>]
    ELSE [v |-> out.v, err |-> NoErr, ev |-> <<path>>]

\* lines 158-181 of UpdateModelData: every ancestor of the path made a map
RECURSIVE MakeParents(_, _)
MakeParents(current, pathTokens) ==
    LET token == Head(pathTokens) IN
    IF Len(pathTokens) = 1 THEN current
    ELSE LET next == IF token \in DOMAIN current /\ current[token].t = "map"
                     THEN current[token].m
                     ELSE EmptyMap
         IN  (token :> Map(MakeParents(next, Tail(pathTokens)))) @@ current

\* UpdateModelData(pathTokens, jsonData): [d, err, ev, trace, log]; trace names
\* the steps in their order, log is the transformation error of line 188
UpdateModelData(d, ord, pathTokens, jsonData) ==
    IF pathTokens = <<>>
    THEN IF IsMapType(jsonData)
         THEN [d |-> [d EXCEPT !.Model = Entries(jsonData)], err |-> NoErr,
               ev |-> <<>>, trace |-> <<"store">>, log |-> NoErr]
         ELSE [d |-> d, err |-> ErrRoot, ev |-> <<>>, trace |-> <<>>, log |-> NoErr]
    ELSE IF Len(pathTokens) = 1
    THEN [d |-> [d EXCEPT !.Model = (pathTokens[1] :> jsonData) @@ @],
          err |-> NoErr, ev |-> <<>>, trace |-> <<"store">>, log |-> NoErr]
    ELSE LET made == [d EXCEPT !.Model = MakeParents(@, pathTokens)]
             result == applyTransformationData(made, ord, pathTokens, jsonData)
         IN  [d |-> [made EXCEPT !.Model = SetIn(@, pathTokens, result.v)],
              err |-> NoErr, ev |-> result.ev,
              trace |-> <<"transform", "store">>, log |-> result.err]

----------------------------------------------------------------------------
(* the MQTT bridge *)

Pub == 0
Sub == 1
PubSub == 2

MqttPath(topic, qos, retain, publishType) ==
    [Topic |-> topic, Qos |-> qos, Retain |-> retain, PublishType |-> publishType]

ErrPublish == "Error publishing"

\* lines 191-198: the publishes of one mapping, in the order of its entries
RECURSIVE PublishEntries(_, _)
PublishEntries(mqttPaths, payload) ==
    IF mqttPaths = <<>> THEN <<>>
    ELSE LET mqttPath == Head(mqttPaths)
             rest == PublishEntries(Tail(mqttPaths), payload)
         IN  IF mqttPath.PublishType = Pub \/ mqttPath.PublishType = PubSub
             THEN <<[Topic |-> mqttPath.Topic, Qos |-> mqttPath.Qos,
                     Retain |-> mqttPath.Retain, payload |-> payload]>> \o rest
             ELSE rest

\* json.Marshal of a payload object: a nil map is written as null
Marshal(payloadObj) == IF payloadObj.t = "nilmap" THEN Null ELSE payloadObj

\* lines 175-199: the loop over m.Paths; todo are the mapping paths left,
\* s.d the struct, s.tokens the publishes issued and s.ev the scripts run so far
RECURSIVE PublishLoop(_, _, _, _, _)

\* lines 178-198: r is what getModelDataCallback returned for Head(todo)
PublishPath(r, s, ord, paths, fullPath, todo) ==
    IF r.err # NoErr
    THEN [err |-> r.err, d |-> r.d, tokens |-> s.tokens,
          awaited |-> FALSE, ev |-> s.ev \o r.ev]
    ELSE PublishLoop([d |-> r.d,
                      tokens |-> s.tokens
                                 \o PublishEntries(paths[Head(todo)], Marshal(r.v)),
                      ev |-> s.ev \o r.ev],
                     ord, paths, fullPath, Tail(todo))

PublishLoop(s, ord, paths, fullPath, todo) ==
    IF todo = <<>>
    THEN [err |-> NoErr, d |-> s.d, tokens |-> s.tokens, awaited |-> TRUE, ev |-> s.ev]
    ELSE IF ~HasPrefix(fullPath, Head(todo))
    THEN PublishLoop(s, ord, paths, fullPath, Tail(todo))
    ELSE PublishPath(GetModelData(s.d, ord, Split(Head(todo)), FALSE),
                     s, ord, paths, fullPath, todo)

\* lines 201-207: the wait for every publish; failing are the topics whose
\* publish the broker does not complete
WaitTokens(r, failing) ==
    IF r.err # NoErr THEN r
    ELSE IF \E i \in 1..Len(r.tokens) : r.tokens[i].Topic \in failing
    THEN [r EXCEPT !.err = ErrPublish]
    ELSE r

\* PublishMessage(pathTokens, d.GetModelData)
PublishMessage(d, ord, paths, failing, pathTokens) ==
    WaitTokens(PublishLoop([d |-> d, tokens |-> <<>>, ev |-> <<>>], ord, paths,
                           Join(pathTokens), InOrder(ord.m, DOMAIN paths)),
               failing)

\* the decoding without the fallback of lines 134-138: what json.Unmarshal left
UnmarshalJsonOnly(payload) == payload.data

\* lines 131-138 of the subscription callback: the payload decoded as JSON,
\* or kept as a string when it is not JSON
Unmarshal(payload) == IF payload.json THEN payload.data ELSE Str(payload.text)

----------------------------------------------------------------------------
(* the write the subscription callback is given (setModelDataCallback): the  *)
(* model's write followed by the outbound flow                               *)

\* the outbound flow after the store; s is the write so far
writePublished(pub, s) ==
    [d |-> pub.d, err |-> NoErr, ev |-> s.ev \o pub.ev,
     trace |-> s.trace \o [i \in 1..Len(pub.tokens) |-> "publish"],
     tokens |-> pub.tokens, puberr |-> pub.err]

\* the resolve of the written path; r is what applyTransformation returned and a
\* transformation's output is stored in place of the value
writeResolved(r, transformed, ord, paths, failing, pathTokens) ==
    writePublished(
        PublishMessage(IF transformed /\ r.err = NoErr
                       THEN [r.d EXCEPT !.Model = SetMapData(@, pathTokens, r.v).m]
                       ELSE r.d,
                       ord, paths, failing, pathTokens),
        [ev |-> r.ev,
         trace |-> <<"invalidate", "store", "transform">>
                   \o (IF transformed /\ r.err = NoErr
                       THEN <<"store transformed">> ELSE <<>>)])

\* [d, err, ev, trace, tokens, puberr]; trace names the steps in their order
write(d, ord, paths, failing, pathTokens, value) ==
    LET set == SetModelData(d, pathTokens, value)
    IN  IF set.err # NoErr
        THEN [d |-> set.d, err |-> set.err, ev |-> <<>>, trace |-> <<"invalidate">>,
              tokens |-> <<>>, puberr |-> NoErr]
        ELSE writeResolved(applyTransformation(set.d, ord, Join(pathTokens)),
                           Join(pathTokens) \in DOMAIN d.Transformations,
                           ord, paths, failing, pathTokens)

----------------------------------------------------------------------------
(* the server *)

VARIABLES
    Model,                \* DataModel.Model: the document (the root map)
    Transformations,      \* DataModel.Transformations: path -> definition
    Nodes,                \* DataModel.Nodes: alias -> list of paths
    Paths,                \* MqttClient.Paths: path -> list of MqttPath
    transformationCache,  \* DataModel.transformationCache: path -> value
    processingPaths,      \* DataModel.processingPaths: the cycle guard
    pc,                   \* where each goroutine is in the request it serves
    last                  \* the last request served and its outcome

vars == <<Model, Transformations, Nodes, Paths, transformationCache,
          processingPaths, pc, last>>

\* the goroutines that serve requests: two HTTP requests and the MQTT callback
Goroutines == {"http1", "http2", "mqtt"}

Idle == [at |-> "idle"]
Crashed == [at |-> "crashed"]

\* the DataModel struct of the current state
DataModel ==
    [Model |-> Model, Transformations |-> Transformations,
     transformationCache |-> transformationCache,
     processingPaths |-> processingPaths]

\* the state left by a call that returns the struct d
Becomes(d) ==
    /\ Model' = d.Model
    /\ transformationCache' = d.transformationCache
    /\ processingPaths' = d.processingPaths
    /\ UNCHANGED <<Transformations, Nodes, Paths>>

Outcome(op, path, value, err, v, ev, trace, tokens, log) ==
    [op |-> op, path |-> path, value |-> value, err |-> err, v |-> v,
     ev |-> ev, trace |-> trace, tokens |-> tokens, log |-> log]

\* every order in which a Go map with these keys can be ranged over
Perms(S) ==
    {f \in [1..Cardinality(S) -> S] : \A i, j \in DOMAIN f : i # j => f[i] # f[j]}

ParamNames(T) ==
    UNION {DOMAIN Entries(T[k].parameters) : k \in {x \in DOMAIN T : T[x].t = "map"}}

Orders ==
    [t : Perms(DOMAIN Transformations),
     p : Perms(ParamNames(Transformations)),
     m : Perms(DOMAIN Paths)]

\* the orders of a call that ranges over the parameters of a transformation only
ParamOrders == [p : Perms(ParamNames(Transformations))]

\* the source paths of the parameters of the transformations in S
Sources(T, S) ==
    UNION {{Entries(T[tp].parameters)[k].s :
                k \in {x \in DOMAIN Entries(T[tp].parameters) :
                          Entries(T[tp].parameters)[x].t = "str"}} :
           tp \in {x \in S : T[x].t = "map"}}

\* the transformations a read of the paths in todo can apply: those the loop of
\* applyNestedTransformations takes for a path read, and, through their
\* parameters, those it takes for the paths they read
RECURSIVE Ranged(_, _, _)
Ranged(T, todo, done) ==
    IF todo \subseteq done
    THEN {tp \in DOMAIN T : \E q \in done : HasPrefix(tp, q)}
    ELSE Ranged(T, Sources(T, {tp \in DOMAIN T : \E q \in todo : HasPrefix(tp, q)}),
                done \cup todo)

\* one order for every way a read of these paths can range over the
\* transformations it applies: the order of the others, which the loop skips,
\* makes no difference and is fixed
OrdersOf(paths) ==
    LET applied == Ranged(Transformations, paths, {})
        skipped == CHOOSE f \in Perms(DOMAIN Transformations \ applied) : TRUE
    IN  {ord \in Orders : ord.t = InOrder(ord.t, applied) \o skipped}

ModelPrefix == <<"/", "m", "o", "d", "e", "l">>
NodePrefix == <<"/", "n", "o", "d", "e">>

extractPathTokens(path, prefix) == GetStrTokens(path, prefix)

ErrNodePath == "expected only one item in the path"
ErrNoNode == "no match in the nodes list"

\* the response is written: the state the call left and the outcome of the request
Respond(r, op, pathTokens, value, v, trace, tokens, log) ==
    /\ Becomes(r.d)
    /\ UNCHANGED pc
    /\ last' = Outcome(op, pathTokens, value, r.err, v, r.ev, trace, tokens, log)

\* ModelHandler, GET
ModelGetDone(r, pathTokens) ==
    Respond(r, "get", pathTokens, Null, r.v, <<>>, <<>>, NoErr)

ModelGet(url) ==
    \E ord \in OrdersOf({Join(extractPathTokens(url, ModelPrefix))}) :
        ModelGetDone(GetModelData(DataModel, ord, extractPathTokens(url, ModelPrefix), FALSE),
                     extractPathTokens(url, ModelPrefix))

\* ModelHandler, POST with a JSON body
ModelPostDone(r, pathTokens, jsonData) ==
    Respond(r, "post", pathTokens, jsonData, Null, r.trace, <<>>, r.log)

ModelPost(url, jsonData) ==
    \E ord \in ParamOrders :
        ModelPostDone(UpdateModelData(DataModel, ord,
                                      extractPathTokens(url, ModelPrefix), jsonData),
                      extractPathTokens(url, ModelPrefix), jsonData)

\* lines 147-153 of NodeHandler: the loop over the paths of the node; s is the
\* struct, the scripts run and the steps taken so far
RECURSIVE UpdateNodePaths(_, _, _, _)
UpdateNodePaths(s, ord, todo, jsonData) ==
    IF todo = <<>> THEN [d |-> s.d, err |-> NoErr, ev |-> s.ev, trace |-> s.trace]
    ELSE LET r == UpdateModelData(s.d, ord, GetStrTokens(Head(todo), Sep), jsonData)
         IN  IF r.err # NoErr
             THEN [d |-> r.d, err |-> r.err, ev |-> s.ev \o r.ev, trace |-> s.trace]
             ELSE UpdateNodePaths([d |-> r.d, ev |-> s.ev \o r.ev,
                                   trace |-> s.trace \o r.trace],
                                  ord, Tail(todo), jsonData)

\* NodeHandler with the writes of a fan-out undone when one of them fails
NodeFanOutAtomic(d, nodes, ord, url, jsonData) ==
    LET pathTokens == extractPathTokens(url, NodePrefix)
        normalizedPath == Join(pathTokens)
    IN  IF Len(pathTokens) # 1
        THEN [d |-> d, err |-> ErrNodePath, ev |-> <<>>, trace |-> <<>>]
        ELSE IF normalizedPath \notin DOMAIN nodes
        THEN [d |-> d, err |-> ErrNoNode, ev |-> <<>>, trace |-> <<>>]
        ELSE LET r == UpdateNodePaths([d |-> d, ev |-> <<>>, trace |-> <<>>],
                                      ord, nodes[normalizedPath], jsonData)
             IN  IF r.err # NoErr THEN [r EXCEPT !.d = d] ELSE r

\* lines 127-153 of NodeHandler: the alias of the URL looked up in the nodes
\* and the body written at every path of the node
NodeFanOut(d, nodes, ord, url, jsonData) ==
    LET pathTokens == extractPathTokens(url, NodePrefix)
        normalizedPath == Join(pathTokens)
    IN  IF Len(pathTokens) # 1
        THEN [d |-> d, err |-> ErrNodePath, ev |-> <<>>, trace |-> <<>>]
        ELSE IF normalizedPath \notin DOMAIN nodes
        THEN [d |-> d, err |-> ErrNoNode, ev |-> <<>>, trace |-> <<>>]
        ELSE UpdateNodePaths([d |-> d, ev |-> <<>>, trace |-> <<>>],
                             ord, nodes[normalizedPath], jsonData)

\* NodeHandler, POST with a JSON body
NodePostDone(r, pathTokens, jsonData) ==
    Respond(r, "node", pathTokens, jsonData, Null, r.trace, <<>>, NoErr)

NodePost(url, jsonData) ==
    \E ord \in ParamOrders :
        NodePostDone(NodeFanOut(DataModel, Nodes, ord, url, jsonData),
                     extractPathTokens(url, NodePrefix), jsonData)

\* the subscription callback of entry i of the mapping at path: a message arrives
MessageArrivedDone(r, localPathTokens, data) ==
    Respond(r, "message", localPathTokens, data, Null, r.trace, r.tokens, r.puberr)

MessageArrived(path, i, payload, failing) ==
    /\ path \in DOMAIN Paths
    /\ i \in DOMAIN Paths[path]
    /\ Paths[path][i].PublishType \in {Sub, PubSub}
    /\ \E ord \in OrdersOf(DOMAIN Paths) :
        MessageArrivedDone(write(DataModel, ord, Paths, failing, Split(path),
                                 Unmarshal(payload)),
                           Split(path), Unmarshal(payload))

----------------------------------------------------------------------------
(* configurations: a record r with a raw leaf y, a formatted leaf f, a leaf  *)
(* c whose transformation takes its own path as a parameter, and a synthetic *)
(* sum s over r/y                                                            *)

MaxNum == 1     \* the numbers written are 1..MaxNum

P_s == <<"s">>
P_r == <<"r">>
P_ry == <<"r", "/", "y">>
P_rf == <<"r", "/", "f">>
P_rc == <<"r", "/", "c">>
X == <<"x">>
K == <<"k">>                   \* node alias
TopicR == <<"o", "r", "g", "/", "r">>

InitRecord == <<"y">> :> Num(0) @@ <<"f">> :> Num(5)

\* the documents a configuration file may hold at r/c: nothing or a mapping
InitModels ==
    { <<"r">> :> Map(InitRecord),
      <<"r">> :> Map(<<"c">> :> Map(<<"y">> :> Num(0)) @@ InitRecord) }

InitTransformations ==
    (P_rc :> Transformation(Str(SumScript), Map(X :> Str(P_rc))))
    @@ (P_s :> Transformation(Str(SumScript), Map(X :> Str(P_ry))))
    @@ (P_rf :> Transformation(Str(FmtScript), Null))

InitNodes == (K :> <<P_ry, P_rf>>)

InitPaths == (P_r :> <<MqttPath(TopicR, 0, FALSE, PubSub)>>)

Init ==
    /\ Model \in InitModels
    /\ Transformations = InitTransformations
    /\ Nodes = InitNodes
    /\ Paths = InitPaths
    /\ transformationCache = EmptyMap
    /\ processingPaths = {}
    /\ pc = [g \in Goroutines |-> Idle]
    /\ last = Outcome("init", <<>>, Null, NoErr, Null, <<>>, <<>>, <<>>, NoErr)

Url(prefix, path) == prefix \o Sep \o path

GetUrls == {Url(ModelPrefix, q) : q \in {P_s, P_r, P_rc}}
PostUrls == {Url(ModelPrefix, q) : q \in {P_s, P_ry, P_rf, P_rc}}
NodeUrls == {Url(NodePrefix, K), Url(NodePrefix, X)}
Values == {Num(n) : n \in 1..MaxNum}
Payloads == {[json |-> TRUE, data |-> Map(<<"y">> :> Num(1)), text |-> <<>>]}
Brokers == {{}, {TopicR}}      \* the topics whose publish fails

Next ==
    \/ \E url \in GetUrls : ModelGet(url)
    \/ \E url \in PostUrls, v \in Values : ModelPost(url, v)
    \/ \E url \in NodeUrls, v \in Values : NodePost(url, v)
    \/ \E path \in DOMAIN Paths, i \in 1..2, payload \in Payloads,
          failing \in Brokers :
            MessageArrived(path, i, payload, failing)

Spec == Init /\ [][Next]_vars

----------------------------------------------------------------------------
(* the configuration of config.json: the sales figures, their total and the   *)
(* node that writes the four of them                                          *)

Sales == <<"s", "a", "l", "e", "s">>
North == <<"n", "o", "r", "t", "h">>
South == <<"s", "o", "u", "t", "h">>
East == <<"e", "a", "s", "t">>
West == <<"w", "e", "s", "t">>
Total == <<"t", "o", "t", "a", "l">>
AllSalesMetrics ==
    <<"a", "l", "l", "S", "a", "l", "e", "s", "M", "e", "t", "r", "i", "c", "s">>
TopicSales == <<"o", "r", "g", "/", "s", "a", "l", "e", "s">>

SalesPath(leaf) == Sales \o Sep \o leaf

SalesModel ==
    Sales :> Map(North :> Num(120000) @@ South :> Num(85000)
                 @@ East :> Num(95000) @@ West :> Num(110000))

SalesTransformations ==
    SalesPath(Total) :>
        Transformation(Str(SumScript),
                       Map(North :> Str(SalesPath(North)) @@ South :> Str(SalesPath(South))
                           @@ East :> Str(SalesPath(East)) @@ West :> Str(SalesPath(West))))

SalesNodes ==
    AllSalesMetrics :>
        <<SalesPath(North), SalesPath(South), SalesPath(East), SalesPath(West)>>

SalesPaths == Sales :> <<MqttPath(TopicSales, 0, FALSE, Pub)>>

InitSales ==
    /\ Model = SalesModel
    /\ Transformations = SalesTransformations
    /\ Nodes = SalesNodes
    /\ Paths = SalesPaths
    /\ transformationCache = EmptyMap
    /\ processingPaths = {}
    /\ pc = [g \in Goroutines |-> Idle]
    /\ last = Outcome("init", <<>>, Null, NoErr, Null, <<>>, <<>>, <<>>, NoErr)

SalesValues == {Num(10 * n) : n \in 1..MaxNum}

NextSales ==
    \/ \E q \in {Sales, SalesPath(Total)} : ModelGet(Url(ModelPrefix, q))
    \/ \E q \in {SalesPath(North), SalesPath(South), SalesPath(East)},
          v \in SalesValues :
            ModelPost(Url(ModelPrefix, q), v)
    \/ \E v \in SalesValues : NodePost(Url(NodePrefix, AllSalesMetrics), v)

SpecSales == InitSales /\ [][NextSales]_vars

----------------------------------------------------------------------------
(* concurrent requests: net/http serves every request in a goroutine of its   *)
(* own and the MQTT client runs the subscription callback in another; the     *)
(* DataModel they share has no lock.  A read of a transformation path is two  *)
(* steps here, a write through SetModelData two more.                         *)

\* an HTTP GET of path by goroutine g: lines 51-61 of applyTransformation (the
\* cache, the cycle guard, the mark)
ResolveBegin(g, path) ==
    /\ pc[g] = Idle
    /\ path \in DOMAIN Transformations
    /\ UNCHANGED <<Model, Transformations, Nodes, Paths, transformationCache>>
    /\ IF path \in DOMAIN transformationCache
       THEN /\ UNCHANGED <<processingPaths, pc>>
            /\ last' = Outcome("get", Split(path), Null, NoErr,
                               transformationCache[path], <<>>, <<>>, <<>>, NoErr)
       ELSE IF path \in processingPaths
       THEN /\ UNCHANGED <<processingPaths, pc>>
            /\ last' = Outcome("get", Split(path), Null, ErrCircular, Null,
                               <<>>, <<>>, <<>>, NoErr)
       ELSE /\ processingPaths' = processingPaths \cup {path}
            /\ pc' = [pc EXCEPT ![g] = [at |-> "resolving", path |-> path,
                                        value |-> Null]]
            /\ UNCHANGED last

\* lines 64-165 of applyTransformation and the deferred delete of line 62
ResolveEndDone(r, g) ==
    /\ Becomes(r.d)
    /\ pc' = [pc EXCEPT ![g] = Idle]
    /\ last' = Outcome("get", Split(pc[g].path), Null, r.err, r.v, r.ev,
                       <<>>, <<>>, NoErr)

ResolveEnd(g) ==
    /\ pc[g].at = "resolving"
    /\ \E ord \in Orders :
        ResolveEndDone(
            Unmark(TransformationBody(DataModel, ord, pc[g].path), pc[g].path),
            g)

\* the write of path by goroutine g: line 224 of SetModelData (ClearCache)
WriteBegin(g, path, value) ==
    /\ pc[g] = Idle
    /\ Becomes(ClearCache(DataModel, path))
    /\ pc' = [pc EXCEPT ![g] = [at |-> "storing", path |-> path, value |-> value]]
    /\ UNCHANGED last

\* line 225 of SetModelData (SetMapData)
WriteEnd(g) ==
    /\ pc[g].at = "storing"
    /\ Becomes([DataModel EXCEPT
                  !.Model = SetMapData(@, Split(pc[g].path), pc[g].value).m])
    /\ pc' = [pc EXCEPT ![g] = Idle]
    /\ last' = Outcome("write", Split(pc[g].path), pc[g].value, NoErr, Null,
                       <<>>, <<"invalidate", "store">>, <<>>, NoErr)

\* two goroutines in the maps of the DataModel at once: the Go runtime may stop
\* the process ("fatal error: concurrent map read and map write")
Fatal ==
    /\ Cardinality({g \in Goroutines : pc[g] # Idle /\ pc[g] # Crashed}) >= 2
    /\ pc' = [g \in Goroutines |-> Crashed]
    /\ UNCHANGED <<Model, Transformations, Nodes, Paths, transformationCache,
                   processingPaths, last>>

NextConcurrent ==
    \/ \E g \in Goroutines, path \in {P_s, P_rf, P_rc} : ResolveBegin(g, path)
    \/ \E g \in Goroutines : ResolveEnd(g)
    \/ \E g \in Goroutines, v \in Values : WriteBegin(g, P_ry, v)
    \/ \E g \in Goroutines : WriteEnd(g)
    \/ Fatal

SpecConcurrent == Init /\ [][NextConcurrent]_vars

----------------------------------------------------------------------------
(* the tree store on its own: SetModelData and the raw GetModelData applied  *)
(* to small documents over the keys r and x                                  *)

\* the paths the tree is read and written at
TreePaths == {<<>>, <<P_r>>, <<P_r, X>>, <<X, P_r>>, <<P_r, X, P_r>>}

\* the values written: numbers, a sequence and a mapping
TreeValues == Values \cup {Arr(<<Num(0)>>), Map(X :> Num(0))}

InitTree ==
    /\ Model \in {EmptyMap, P_r :> Num(0), P_r :> Map(X :> Arr(<<Num(0)>>))}
    /\ Transformations = EmptyMap
    /\ Nodes = EmptyMap
    /\ Paths = EmptyMap
    /\ transformationCache = EmptyMap
    /\ processingPaths = {}
    /\ pc = [g \in Goroutines |-> Idle]
    /\ last = Outcome("init", <<>>, Null, NoErr, Null, <<>>, <<>>, <<>>, NoErr)

\* SetModelData(pathTokens, value); the outcome keeps, as v, what the raw read
\* of the path gave before the write
TreeSet(pathTokens, value) ==
    LET set == SetModelData(DataModel, pathTokens, value)
    IN  /\ Becomes(set.d)
        /\ UNCHANGED pc
        /\ last' = Outcome("set", pathTokens, value, set.err,
                           GetMapData(Map(Model), pathTokens).v,
                           <<>>, <<>>, <<>>, NoErr)

\* GetModelData(pathTokens, true)
TreeGet(pathTokens) ==
    \E ord \in Orders :
        Respond(GetModelData(DataModel, ord, pathTokens, TRUE),
                "raw", pathTokens, Null,
                GetModelData(DataModel, ord, pathTokens, TRUE).v,
                <<>>, <<>>, NoErr)

NextTree ==
    \/ \E p \in TreePaths, v \in TreeValues : TreeSet(p, v)
    \/ \E p \in TreePaths : TreeGet(p)
    \/ \E v \in TreeValues : ModelPost(Url(ModelPrefix, <<>>), v)

SpecTree == InitTree /\ [][NextTree]_vars

----------------------------------------------------------------------------
(* reads of a document with a nested mapping r/c and a transformation        *)
(* beneath it whose last token is made of characters of r/c, or with a sum s  *)
(* over the mapping r and a sum over s at r/c                                 *)

P_rcc == P_rc \o Sep \o <<"c">>

InitRead ==
    /\ Model = (P_r :> Map(<<"c">> :> Map(<<"y">> :> Num(0)) @@ InitRecord))
    /\ Transformations \in
           { (P_rcc :> Transformation(Str(FmtScript), Null))
             @@ (P_s :> Transformation(Str(SumScript), Map(X :> Str(P_ry))))
             @@ (P_rf :> Transformation(Str(FmtScript), Null)),
             (P_s :> Transformation(Str(SumScript), Map(X :> Str(P_r))))
             @@ (P_rc :> Transformation(Str(SumScript), Map(X :> Str(P_s)))) }
    /\ Nodes = EmptyMap
    /\ Paths = EmptyMap
    /\ transformationCache = EmptyMap
    /\ processingPaths = {}
    /\ pc = [g \in Goroutines |-> Idle]
    /\ last = Outcome("init", <<>>, Null, NoErr, Null, <<>>, <<>>, <<>>, NoErr)

NextRead ==
    \/ \E q \in {<<>>, P_s, P_r, P_rc, P_ry \o Sep \o X, X} :
            ModelGet(Url(ModelPrefix, q))
    \/ \E q \in {P_ry, P_rc \o Sep \o <<"y">>}, v \in Values :
            ModelPost(Url(ModelPrefix, q), v)

SpecRead == InitRead /\ [][NextRead]_vars

----------------------------------------------------------------------------
(* a node whose second path is the root: the write of the root fails for a   *)
(* body that is not a mapping; one of the paths written over HTTP is east, a  *)
(* name that begins with a character of /model                                *)

\* the URLs of the fan-out requests: the node k, and two names that are not nodes
FanOutUrls == {Url(NodePrefix, K), Url(NodePrefix, <<"e">> \o K), Url(NodePrefix, X)}

InitFanOut ==
    /\ Model = (P_r :> Map(InitRecord))
    /\ Transformations = (P_rf :> Transformation(Str(FmtScript), Null))
    /\ Nodes = (K :> <<P_ry, <<>>, P_rf>>)
    /\ Paths = EmptyMap
    /\ transformationCache = EmptyMap
    /\ processingPaths = {}
    /\ pc = [g \in Goroutines |-> Idle]
    /\ last = Outcome("init", <<>>, Null, NoErr, Null, <<>>, <<>>, <<>>, NoErr)

NextFanOut ==
    \/ \E url \in FanOutUrls, v \in Values \cup {Map(P_s :> Num(0))} :
            NodePost(url, v)
    \/ \E q \in {P_ry, P_rf, P_s, East}, v \in Values :
            ModelPost(Url(ModelPrefix, q), v)
    \/ \E q \in {P_r, P_rf} : ModelGet(Url(ModelPrefix, q))

SpecFanOut == InitFanOut /\ [][NextFanOut]_vars

----------------------------------------------------------------------------
(* the bridge over the sales figures: the mapping of config.json that         *)
(* publishes sales, a mapping that writes sales/north from the bus and        *)
(* publishes it, and a mapping at sale, a name that sales begins with; the    *)
(* topics of the last two are named as their paths                            *)

Sale == <<"s", "a", "l", "e">>

InitBus ==
    /\ Model = SalesModel
    /\ Transformations = SalesTransformations
    /\ Nodes = SalesNodes
    /\ Paths = SalesPaths
               @@ (SalesPath(North) :> <<MqttPath(SalesPath(North), 0, FALSE, PubSub)>>)
               @@ (Sale :> <<MqttPath(Sale, 0, FALSE, Pub)>>)
    /\ transformationCache = EmptyMap
    /\ processingPaths = {}
    /\ pc = [g \in Goroutines |-> Idle]
    /\ last = Outcome("init", <<>>, Null, NoErr, Null, <<>>, <<>>, <<>>, NoErr)

NextBus ==
    \/ \E v \in SalesValues, failing \in {{}, {TopicSales}} :
            MessageArrived(SalesPath(North), 1,
                           [json |-> TRUE, data |-> v, text |-> <<>>], failing)
    \/ \E q \in {Sale, SalesPath(South)}, v \in SalesValues :
            ModelPost(Url(ModelPrefix, q), v)
    \/ \E q \in {Sales, SalesPath(Total)} : ModelGet(Url(ModelPrefix, q))

SpecBus == InitBus /\ [][NextBus]_vars

----------------------------------------------------------------------------
(* the bridge over the record r: a mapping at r with an entry that           *)
(* subscribes and publishes and an entry that only publishes, with QoS 1 and  *)
(* its topic named as the path                                                *)

\* the payloads of the messages: JSON mappings, a JSON number, and a text that
\* is not JSON
EchoPayloads ==
    {[json |-> TRUE, data |-> Map(<<"y">> :> v), text |-> <<>>] : v \in Values}
    \cup {[json |-> TRUE, data |-> v, text |-> <<>>] : v \in Values}
    \cup {[json |-> FALSE, data |-> Null, text |-> X]}

InitEcho ==
    /\ Model = (P_r :> Map(InitRecord))
    /\ Transformations = (P_rf :> Transformation(Str(FmtScript), Null))
    /\ Nodes = EmptyMap
    /\ Paths = (P_r :> <<MqttPath(TopicR, 0, FALSE, PubSub),
                         MqttPath(P_r, 1, FALSE, Pub)>>)
    /\ transformationCache = EmptyMap
    /\ processingPaths = {}
    /\ pc = [g \in Goroutines |-> Idle]
    /\ last = Outcome("init", <<>>, Null, NoErr, Null, <<>>, <<>>, <<>>, NoErr)

NextEcho ==
    \/ \E i \in 1..2, payload \in EchoPayloads, failing \in {{}, {TopicR}, {P_r}} :
            MessageArrived(P_r, i, payload, failing)
    \/ \E q \in {P_ry, P_rf, P_s}, v \in Values : ModelPost(Url(ModelPrefix, q), v)
    \/ \E q \in {P_r, P_rf} : ModelGet(Url(ModelPrefix, q))

SpecEcho == InitEcho /\ [][NextEcho]_vars


----------------------------------------------------------------------------
(* the MQTT client over the mapping at r: its connection, the subscriptions  *)
(* the broker holds for it, and PublishMessage taken step by step with the    *)
(* broker completing the publishes.  pc["mqtt"] is where the client is        *)

\* Connect, lines 57-103: the options of lines 59-68 ask for automatic
\* reconnects and leave the session clean; the client is connected and nothing
\* is subscribed yet
Connect ==
    /\ pc["mqtt"] = Idle
    /\ pc' = [pc EXCEPT !["mqtt"] = [at |-> "connected", subscribed |-> {},
                                     fresh |-> TRUE]]
    /\ UNCHANGED <<Model, Transformations, Nodes, Paths, transformationCache,
                   processingPaths, last>>

\* SetupSubscriptions, lines 105-161, called once the connect of the start has
\* completed: every entry that subscribes is subscribed
SetupSubscriptions ==
    /\ pc["mqtt"].at = "connected"
    /\ pc["mqtt"].fresh
    /\ pc' = [pc EXCEPT !["mqtt"] =
                 [at |-> "connected",
                  subscribed |-> {<<path, i>> \in (DOMAIN Paths) \X (1..2) :
                                     /\ i \in DOMAIN Paths[path]
                                     /\ Paths[path][i].PublishType # Pub},
                  fresh |-> FALSE]]
    /\ UNCHANGED <<Model, Transformations, Nodes, Paths, transformationCache,
                   processingPaths, last>>

\* connectionLostHandler, lines 261-263: the connection ends and the handler
\* logs; with a clean session the broker keeps no subscription of the client
ConnectionLost ==
    /\ pc["mqtt"].at = "connected"
    /\ pc' = [pc EXCEPT !["mqtt"] = [at |-> "lost", subscribed |-> {},
                                     fresh |-> FALSE]]
    /\ UNCHANGED <<Model, Transformations, Nodes, Paths, transformationCache,
                   processingPaths, last>>

\* connectHandler, lines 256-258, after the client has connected again by
\* itself: the handler logs
connectHandler ==
    /\ pc["mqtt"].at = "lost"
    /\ pc' = [pc EXCEPT !["mqtt"] = [@ EXCEPT !.at = "connected"]]
    /\ UNCHANGED <<Model, Transformations, Nodes, Paths, transformationCache,
                   processingPaths, last>>

\* the broker delivers a message for a subscription it holds
MessageDelivered(path, i, payload) ==
    /\ pc["mqtt"].at = "connected"
    /\ <<path, i>> \in pc["mqtt"].subscribed
    /\ MessageArrived(path, i, payload, {})

\* PublishMessage called by goroutine g for a write at pathTokens, lines
\* 170-199: the loop over the mappings has issued the publishes of r
PublishIssued(r, g, pathTokens) ==
    /\ Becomes(r.d)
    /\ IF r.err # NoErr \/ r.tokens = <<>>
       THEN /\ UNCHANGED pc
            /\ last' = Outcome("publish", pathTokens, Null, r.err, Null, r.ev,
                               <<>>, r.tokens, NoErr)
       ELSE /\ pc' = [pc EXCEPT ![g] = [at |-> "waiting", path |-> pathTokens,
                                        tokens |-> r.tokens, waited |-> 0,
                                        complete |-> {}, failed |-> {},
                                        err |-> NoErr]]
            /\ UNCHANGED last

PublishBegin(g, pathTokens) ==
    /\ pc[g] = Idle
    /\ pc["mqtt"].at \in {"connected", "lost"}     \* m.Client is set by Connect
    /\ \E ord \in OrdersOf(DOMAIN Paths) :
          PublishIssued(PublishLoop([d |-> DataModel, tokens |-> <<>>, ev |-> <<>>],
                                    ord, Paths, Join(pathTokens),
                                    InOrder(ord.m, DOMAIN Paths)),
                        g, pathTokens)

\* the client completes the token of publish j, with an error or without: the
\* message has been sent (QoS 0) or the broker has acknowledged it
TokenCompletes(g, j, ok) ==
    /\ pc[g].at = "waiting"
    /\ j \in DOMAIN pc[g].tokens
    /\ j \notin pc[g].complete
    /\ pc' = [pc EXCEPT ![g] = [@ EXCEPT !.complete = @ \cup {j},
                                         !.failed = IF ok THEN @ ELSE @ \cup {j}]]
    /\ UNCHANGED <<Model, Transformations, Nodes, Paths, transformationCache,
                   processingPaths, last>>

\* lines 202-209: token.Wait() returns once the token is complete; after the
\* last token PublishMessage returns
WaitToken(g) ==
    /\ pc[g].at = "waiting"
    /\ pc[g].waited + 1 \in pc[g].complete
    /\ UNCHANGED <<Model, Transformations, Nodes, Paths, transformationCache,
                   processingPaths>>
    /\ IF pc[g].waited + 1 = Len(pc[g].tokens)
       THEN /\ pc' = [pc EXCEPT ![g] = Idle]
            /\ last' = Outcome("publish", pc[g].path, Null,
                               IF pc[g].waited + 1 \in pc[g].failed
                               THEN ErrPublish ELSE pc[g].err,
                               Null, <<>>, <<>>, pc[g].tokens, NoErr)
       ELSE /\ pc' = [pc EXCEPT ![g] =
                        [@ EXCEPT !.waited = @ + 1,
                                  !.err = IF pc[g].waited + 1 \in pc[g].failed
                                          THEN ErrPublish ELSE @]]
            /\ UNCHANGED last

\* LoadDataModel, lines 31-47 of part_001, called by main: the configuration is
\* that of InitEcho, which has an mqtt section, and its file is read and parsed
\* without error.  With CONFIG_FILE_PATH set, line 34 returns the data model
\* as it was read; otherwise config.json is read and lines 42-44 connect
LoadDataModel(path) ==
    /\ pc["mqtt"] = Idle
    /\ IF path # <<>>
       THEN /\ pc' = [pc EXCEPT !["mqtt"] = [at |-> "loaded", subscribed |-> {},
                                             fresh |-> FALSE]]
            /\ UNCHANGED <<Model, Transformations, Nodes, Paths,
                           transformationCache, processingPaths, last>>
       ELSE Connect

NextClient ==
    \/ \E path \in {<<>>, <<"c", ".", "j", "s", "o", "n">>} : LoadDataModel(path)
    \/ SetupSubscriptions
    \/ ConnectionLost
    \/ connectHandler
    \/ \E i \in 1..2, payload \in EchoPayloads : MessageDelivered(P_r, i, payload)
    \/ PublishBegin("http1", Split(P_ry))
    \/ \E j \in 1..2, ok \in BOOLEAN : TokenCompletes("http1", j, ok)
    \/ WaitToken("http1")

SpecClient == InitEcho /\ [][NextClient]_vars


----------------------------------------------------------------------------
(* POST /config: the data model of the server replaced by the one of the     *)
(* request, over the record r and the node k                                  *)

\* ConfigHandler that takes the new data model before it is saved
ConfigReplacedBeforeSave(cur, body, saved) ==
    IF ~body.json
    THEN [d |-> cur.d, nodes |-> cur.nodes,
          err |-> "error parsing JSON into DataModel"]
    ELSE [d |-> [Model |-> body.model, Transformations |-> body.transformations,
                 transformationCache |-> EmptyMap, processingPaths |-> NilPaths],
          nodes |-> body.nodes,
          err |-> IF saved THEN NoErr ELSE "error saving data model"]

\* lines 176-190 of ConfigHandler: cur is the data model of the server, body
\* the request body and saved whether SaveDataModel could write the file; the
\* struct decoded from the body has no cache and no cycle guard
ConfigReplaced(cur, body, saved) ==
    IF ~body.json
    THEN [d |-> cur.d, nodes |-> cur.nodes,
          err |-> "error parsing JSON into DataModel"]
    ELSE IF ~saved
    THEN [d |-> cur.d, nodes |-> cur.nodes, err |-> "error saving data model"]
    ELSE [d |-> [Model |-> body.model, Transformations |-> body.transformations,
                 transformationCache |-> EmptyMap, processingPaths |-> NilPaths],
          nodes |-> body.nodes, err |-> NoErr]

\* ConfigHandler, POST
ConfigPost(body, saved) ==
    LET r == ConfigReplaced([d |-> DataModel, nodes |-> Nodes], body, saved)
    IN  /\ Model' = r.d.Model
        /\ Transformations' = r.d.Transformations
        /\ Nodes' = r.nodes
        /\ transformationCache' = r.d.transformationCache
        /\ processingPaths' = r.d.processingPaths
        /\ UNCHANGED <<Paths, pc>>
        /\ last' = Outcome("config", <<>>,
                           IF body.json THEN Map(body.model) ELSE Null,
                           r.err, Null, <<>>, <<>>, <<>>, NoErr)

NextConfig ==
    \/ \E saved \in BOOLEAN,
          body \in {[json |-> FALSE],
                    [json |-> TRUE,
                     model |-> (P_r :> Map(<<"f">> :> Num(7))),
                     transformations |-> (P_rf :> Transformation(Str(FmtScript), Null)),
                     nodes |-> (K :> <<P_rf>>)],
                    [json |-> TRUE,
                     model |-> (P_r :> Map(<<"y">> :> Num(0))),
                     transformations |-> EmptyMap,
                     nodes |-> EmptyMap]} :
            ConfigPost(body, saved)
    \/ \E q \in {P_ry, P_rf}, v \in Values : ModelPost(Url(ModelPrefix, q), v)
    \/ \E q \in {P_r, P_rf, P_ry, P_r \o Sep \o <<"m", "e", "t", "h", "o", "d">>} :
            ModelGet(Url(ModelPrefix, q))
    \/ \E alias \in {K, East, <<"m", "e", "t", "h", "o", "d">>}, v \in Values :
            NodePost(Url(NodePrefix, alias), v)

SpecConfig == InitFanOut /\ [][NextConfig]_vars



----------------------------------------------------------------------------
(* the status of an error response *)

\* err.Error() of the errors whose text carries a part of the URL: the path
\* element of line 64 of GetMapData as ModelHandler wraps it (line 91), and the
\* alias of line 136 of NodeHandler
Error(err, token) ==
    CASE err = ErrNotFound ->
            <<"e", "r", "r", "o", "r", " ", "g", "e", "t", "t", "i", "n",
              "g", " ", "d", "a", "t", "a", ":", " ", "p", "a", "t", "h",
              " ", "e", "l", "e", "m", "e", "n", "t", " ", "'">>
                \o token \o <<"'", " ", "n", "o", "t", " ", "f", "o",
                                "u", "n", "d">>
      [] err = ErrNoNode ->
            <<"n", "o", " ", "m", "a", "t", "c", "h", " ", "i", "n", " ",
              "t", "h", "e", " ", "n", "o", "d", "e", "s", " ", "l", "i",
              "s", "t", " ", "f", "o", "r", " ", "t", "h", "e", " ", "p",
              "a", "t", "h", " ", "\"">>
                \o token \o <<"\"">>

\* sendErrorResponse: the status code, chosen by the words found in the message
sendErrorResponse(errMsg) ==
    LET Contains(s, substr) ==
            \E i \in 0..(Len(s) - Len(substr)) :
                SubSeq(s, i + 1, i + Len(substr)) = substr
    IN  IF Contains(errMsg, <<"n", "o", "t", " ", "f", "o", "u", "n",
                                "d">>)
        THEN 404
        ELSE IF Contains(errMsg, <<"m", "e", "t", "h", "o", "d">>)
        THEN 405
        ELSE IF Contains(errMsg, <<"C", "o", "n", "t", "e", "n", "t", "-",
                                "T", "y", "p", "e">>)
        THEN 415
        ELSE IF \/ Contains(errMsg, <<"d", "o", "e", "s", " ", "n", "o", "t",
                                " ", "p", "o", "i", "n", "t", " ", "t",
                                "o">>)
                \/ Contains(errMsg, <<"i", "n", "v", "a", "l", "i", "d", " ",
                                "J", "S", "O", "N">>)
        THEN 400
        ELSE 500

----------------------------------------------------------------------------
(* properties *)

\* C1: a GET that resolves a path whose transformation takes that same path as
\* a parameter fails with the circular dependency error, whatever raw value is
\* stored there, and leaves no cache entry for the path
C1_SelfCycleFails ==
    (/\ last.op = "get"
     /\ Join(last.path) \in DOMAIN Transformations
     /\ \E k \in DOMAIN Entries(Transformations[Join(last.path)].parameters) :
            Entries(Transformations[Join(last.path)].parameters)[k]
                = Str(Join(last.path)))
    => /\ last.err = ErrCircular
       /\ Join(last.path) \notin DOMAIN transformationCache

\* C2: a read of sales/total gives the sum of the seeded figures, and, once
\* the node has written one value v to the four figures, 4 * v
C2_TotalAfterFanOut ==
    (/\ last.op = "get"
     /\ last.path = Split(SalesPath(Total))
     /\ \E v \in SalesValues \cup {Num(0)} :
            \A leaf \in {North, South, East, West} :
                GetMapData(Map(Model), <<Sales, leaf>>).v
                    = IF v = Num(0) THEN SalesModel[Sales].m[leaf] ELSE v)
    => /\ last.err = NoErr
       /\ last.v = Num(GetMapData(Map(Model), <<Sales, North>>).v.n
                       + GetMapData(Map(Model), <<Sales, South>>).v.n
                       + GetMapData(Map(Model), <<Sales, East>>).v.n
                       + GetMapData(Map(Model), <<Sales, West>>).v.n)

\* C3: after a write of v at a non-root path p, the raw read of p gives v when
\* p has no transformation, and the output of p's transformation evaluated
\* with self = v when it has one
C3_WriteThenReadRaw ==
    (last.op = "post" /\ last.path # <<>> /\ last.err = NoErr)
    => LET raw == GetMapData(Map(Model), last.path)
       IN  /\ raw.err = NoErr
           /\ IF Join(last.path) \notin DOMAIN Transformations
              THEN raw.v = last.value
              ELSE \A ord \in ParamOrders :
                     LET out == applyTransformationData(DataModel, ord,
                                                        last.path, last.value)
                     IN  out.err = NoErr => raw.v = out.v

\* the paths read by the properties that range over paths
ProbePaths ==
    {<<>>} \cup {Split(q) : q \in {P_s, P_r, P_ry, P_rf, P_rc, P_ry \o Sep \o X, X}}

C5_ResolvedEqualsRaw ==
    \A p \in ProbePaths :
      \A ord \in OrdersOf({Join(p)}) :
        (\A tp \in DOMAIN Transformations : ~HasPrefix(tp, Join(p)))
        => LET resolved == GetModelData(DataModel, ord, p, FALSE)
               raw == GetModelData(DataModel, ord, p, TRUE)
           IN  \/ resolved.err # NoErr /\ raw.err # NoErr
               \/ /\ resolved.err = NoErr /\ raw.err = NoErr
                  /\ resolved.v = raw.v

\* C6: a transformation path resolved twice with no write in between gives the
\* same value twice, and its script is run once: the second resolve runs none
C6_ResolveTwice ==
    \A path \in DOMAIN Transformations :
      \A ord \in OrdersOf({path}) :
        LET first == applyTransformation(DataModel, ord, path)
            second == applyTransformation(first.d, ord, path)
        IN  first.err = NoErr
            => /\ second.err = NoErr
               /\ second.v = first.v
               /\ second.ev = <<>>
               /\ Len(SelectSeq(first.ev, LAMBDA e : e = path))
                    = IF path \in DOMAIN transformationCache THEN 0 ELSE 1

\* C6 witness: s was read, and read again with its script not run
C6_ServedFromCache ==
    /\ last.op = "get"
    /\ last.path = Split(P_s)
    /\ last.err = NoErr
    /\ last.ev = <<>>
    /\ P_s \in DOMAIN transformationCache
    /\ last.v = transformationCache[P_s]

\* C7: no two goroutines are inside an operation of the model at the same time
C7_Serialized ==
    Cardinality({g \in Goroutines : pc[g] \notin {Idle, Crashed}}) <= 1

\* the place of a step in the state machine of a write
StepRank(step) ==
    CASE step = "invalidate" -> 1
      [] step = "store" -> 2
      [] step = "transform" -> 3
      [] step = "store transformed" -> 4
      [] step = "publish" -> 5

\* C8: the steps of one write come in the order invalidate, store, transform,
\* publish
C8_WriteStepsInOrder ==
    (last.op \in {"post", "message"} /\ last.path # <<>> /\ last.err = NoErr)
    => /\ \E i \in DOMAIN last.trace : last.trace[i] = "invalidate"
       /\ \E i \in DOMAIN last.trace : last.trace[i] = "store"
       /\ \A i, j \in DOMAIN last.trace :
            i < j => StepRank(last.trace[i]) <= StepRank(last.trace[j])

\* C9: when the transformation at p fails during a write of v at p, the write
\* succeeds and the raw read of p gives v
C9_FailedTransformStoresRaw ==
    (/\ last.op = "post"
     /\ Join(last.path) \in DOMAIN Transformations
     /\ last.log # NoErr)
    => /\ last.err = NoErr
       /\ GetMapData(Map(Model), last.path) = [v |-> last.value, err |-> NoErr]

\* C10: a GET of a raw mapping fails when a transformation overlaid into the
\* mapping fails to resolve
C10_ReadErrorPropagates ==
    (/\ last.op = "get"
     /\ GetMapData(Map(Model), last.path).v.t = "map"
     /\ \E tp \in DOMAIN Transformations :
            /\ HasPrefix(tp, Join(last.path))
            /\ \A ord \in OrdersOf({tp}) :
                 applyTransformation(DataModel, ord, tp).err # NoErr)
    => last.err # NoErr

\* C11: a GET of a path with a transformation exactly at it and no raw data
\* succeeds when that transformation resolves, and a GET of a path with neither
\* raw data nor a transformation exactly at it fails with the not found error,
\* also when the path runs through a scalar or a sequence
C11_SyntheticOrNotFound ==
    [][last'.op = "get"
       => LET path == Join(last'.path)
              raw == GetModelDataStrict(Map(Model), last'.path)
          IN  /\ (/\ raw.err # NoErr
                  /\ path \in DOMAIN Transformations
                  /\ \A ord \in OrdersOf({path}) :
                        applyTransformation(DataModel, ord, path).err = NoErr)
                 => last'.err = NoErr
              /\ (raw.err # NoErr /\ path \notin DOMAIN Transformations)
                 => last'.err = ErrNotFound]_vars

\* C12: a GET of a raw mapping at q holds the result of every transformation
\* at a path q/r that resolved at the relative token path r of the answer, and
\* every key of the answer that the raw mapping does not have is the first
\* token of such an r
C12_OverlaidAtRelativePath ==
    [][(/\ last'.op = "get"
        /\ GetModelDataStrict(Map(Model), last'.path).err = NoErr
        /\ GetModelDataStrict(Map(Model), last'.path).v.t = "map")
       => LET q == last'.path
              raw == GetModelDataStrict(Map(Model), q).v.m
              beneath == {tp \in DOMAIN Transformations :
                            /\ Len(Split(tp)) > Len(q)
                            /\ SubSeq(Split(tp), 1, Len(q)) = q}
          IN  /\ last'.err = NoErr
              /\ \A tp \in beneath \cap DOMAIN transformationCache' :
                    GetMapData(last'.v, SubSeq(Split(tp), Len(q) + 1, Len(Split(tp))))
                        = [v |-> transformationCache'[tp], err |-> NoErr]
              /\ \A k \in DOMAIN Entries(last'.v) \ DOMAIN raw :
                    \E tp \in beneath : Split(tp)[Len(q) + 1] = k]_vars

\* C13: a GET changes no raw read: the raw read of every path gives after the
\* GET what it gave before
C13_ReadKeepsDocument ==
    [][last'.op = "get"
       => \A p \in ProbePaths \cup {Split(P_rcc)} :
            GetMapData(Map(Model'), p) = GetMapData(Map(Model), p)]_vars

\* C14: the raw read of the root gives the whole document; the raw read of a
\* path with a token absent from its parent mapping fails with the not found
\* error, and the raw read of a path with a token looked up in a scalar or a
\* sequence fails with another error
C14_GetFails ==
    last.op = "raw"
    => /\ last.path = <<>> => last.err = NoErr /\ last.v = Map(Model)
       /\ (\E i \in 1..Len(last.path) :
              LET parent == GetModelDataStrict(Map(Model), SubSeq(last.path, 1, i - 1))
              IN  /\ parent.err = NoErr
                  /\ parent.v.t = "map"
                  /\ last.path[i] \notin DOMAIN parent.v.m)
          => last.err = ErrNotFound
       /\ (\E i \in 1..Len(last.path) :
              LET parent == GetModelDataStrict(Map(Model), SubSeq(last.path, 1, i - 1))
              IN  parent.err = NoErr /\ parent.v.t # "map")
          => last.err \notin {NoErr, ErrNotFound}

\* C15: SetModelData of v at a path that is not the root succeeds, every
\* ancestor of the path is a mapping afterwards, and the raw read of the path
\* gives v
C15_SetThenGet ==
    (last.op = "set" /\ last.path # <<>>)
    => /\ last.err = NoErr
       /\ \A i \in 1..(Len(last.path) - 1) :
            GetMapData(Map(Model), SubSeq(last.path, 1, i)).v.t = "map"
       /\ GetMapData(Map(Model), last.path) = [v |-> last.value, err |-> NoErr]

\* C15 witness: a write at a path of three tokens that ran through a value that
\* was not a mapping
C15_SetThroughScalar ==
    /\ last.op = "set"
    /\ Len(last.path) = 3
    /\ last.err = NoErr
    /\ last.v.t = "nilmap"
    /\ GetMapData(Map(Model), last.path).v = last.value

\* C16: a write of the root with a value that is not a mapping fails with the
\* root error and leaves the document as it was; with a mapping it succeeds and
\* the raw read of the root gives that mapping
C16_RootWrite ==
    [][(last'.op \in {"set", "post"} /\ last'.path = <<>>)
       => IF last'.value.t = "map"
          THEN /\ last'.err = NoErr
               /\ GetMapData(Map(Model'), <<>>) = [v |-> last'.value, err |-> NoErr]
          ELSE /\ last'.err = ErrRoot
               /\ Model' = Model]_vars

\* C16 witness: a number was written at the root of a document that is not empty
C16_RootRefused ==
    /\ last.op = "set"
    /\ last.path = <<>>
    /\ last.value.t = "num"
    /\ last.err = ErrRoot
    /\ Model # EmptyMap

\* C17: a fan-out request for a name that is not a node fails with the unknown
\* node error and changes neither the document nor the transformation cache
C17_UnknownNodeWritesNothing ==
    \A url \in FanOutUrls, v \in Values, ord \in ParamOrders :
        LET alias == SubSeq(url, Len(NodePrefix \o Sep) + 1, Len(url))
            r == NodeFanOut(DataModel, Nodes, ord, url, v)
        IN  alias \notin DOMAIN Nodes
            => /\ r.err = ErrNoNode
               /\ r.d.Model = Model
               /\ r.d.transformationCache = transformationCache

\* C18: when the write at a path of a node fails, the request fails with that
\* error, and the raw read of every earlier path of the node with no
\* transformation gives the body of the request
C18_NoRollback ==
    [][(/\ last'.op = "node"
        /\ Join(last'.path) \in DOMAIN Nodes
        /\ \E k \in DOMAIN Nodes[Join(last'.path)] :
              UpdateModelData(DataModel, CHOOSE ord \in ParamOrders : TRUE,
                              GetStrTokens(Nodes[Join(last'.path)][k], Sep),
                              last'.value).err # NoErr)
       => LET paths == Nodes[Join(last'.path)]
              failed == {k \in DOMAIN paths :
                            UpdateModelData(DataModel, CHOOSE ord \in ParamOrders : TRUE,
                                            GetStrTokens(paths[k], Sep),
                                            last'.value).err # NoErr}
              first == CHOOSE k \in failed : \A j \in failed : k <= j
          IN  /\ last'.err = ErrRoot
              /\ \A i \in 1..(first - 1) :
                    paths[i] \notin DOMAIN Transformations
                    => GetMapData(Map(Model'), GetStrTokens(paths[i], Sep))
                           = [v |-> last'.value, err |-> NoErr]]_vars

\* C18 witness: the fan-out of 1 to the node k failed at the root, r/y holds 1
\* and r/f, the path after the root, was not written
C18_FirstWriteStays ==
    /\ last.op = "node"
    /\ last.path = <<K>>
    /\ last.value = Num(1)
    /\ last.err = ErrRoot
    /\ GetMapData(Map(Model), Split(P_ry)).v = Num(1)
    /\ GetMapData(Map(Model), Split(P_rf)).v = Num(5)

\* C19: the write of a message at w is followed by exactly one publish for
\* every entry that publishes of every mapping whose path w begins with and
\* whose resolved read succeeds, carrying the JSON of the resolved read at the
\* path of the mapping, and by no other publish
C19_OnePublishPerEntry ==
    (last.op = "message" /\ last.err = NoErr)
    => /\ \A m \in {x \in DOMAIN Paths : HasPrefix(Join(last.path), x)} :
            \A ord \in OrdersOf({m}) :
               LET read == GetModelData(DataModel, ord, Split(m), FALSE)
               IN  read.err = NoErr
                   => \A i \in DOMAIN Paths[m] :
                        Paths[m][i].PublishType \in {Pub, PubSub}
                        => Cardinality({j \in DOMAIN last.tokens :
                                          /\ last.tokens[j].Topic = Paths[m][i].Topic
                                          /\ last.tokens[j].payload = Marshal(read.v)}) = 1
       /\ \A j \in DOMAIN last.tokens :
            \E m \in {x \in DOMAIN Paths : HasPrefix(Join(last.path), x)} :
               \E i \in DOMAIN Paths[m] :
                  /\ Paths[m][i].PublishType \in {Pub, PubSub}
                  /\ Paths[m][i].Topic = last.tokens[j].Topic

\* C20: the write of a message at w publishes only for mappings whose path is,
\* token by token, the beginning of w
C20_TokenPrefixOnly ==
    last.op = "message"
    => \A j \in DOMAIN last.tokens :
          \E m \in DOMAIN Paths :
             /\ \E i \in DOMAIN Paths[m] : Paths[m][i].Topic = last.tokens[j].Topic
             /\ Len(Split(m)) <= Len(last.path)
             /\ SubSeq(last.path, 1, Len(Split(m))) = Split(m)

C22_EchoAfterMessage ==
    (last.op = "message" /\ last.err = NoErr)
    => \A i \in DOMAIN Paths[Join(last.path)] :
          Paths[Join(last.path)][i].PublishType = PubSub
          => \E j \in DOMAIN last.tokens :
                /\ last.tokens[j].Topic = Paths[Join(last.path)][i].Topic
                /\ \A ord \in OrdersOf({Join(last.path)}) :
                      last.tokens[j].payload
                         = Marshal(GetModelData(DataModel, ord, last.path, FALSE).v)


\* C23: PublishMessage, called for the path of a mapping, returns with every
\* publish it issued awaited, with an error exactly when a model read or an
\* issued publish failed, and with the document as it was
C23_PublishAwaitsAndKeeps ==
    \A w \in DOMAIN Paths, failing \in {{}, {TopicSales}} :
       \A ord \in OrdersOf(DOMAIN Paths) :
          LET r == PublishMessage(DataModel, ord, Paths, failing, Split(w))
              matching == {m \in DOMAIN Paths : HasPrefix(w, m)}
          IN  /\ r.awaited \/ r.tokens = <<>>
              /\ r.d.Model = Model
              /\ r.err # NoErr
                 <=> \/ \E m \in matching :
                          GetModelData(DataModel, ord, Split(m), FALSE).err # NoErr
                     \/ \E j \in DOMAIN r.tokens : r.tokens[j].Topic \in failing


\* C24: PublishMessage, waiting for a publish the broker has to acknowledge
\* (QoS 1), can always go on by itself: the wait ends, with a failure reported,
\* also when the acknowledgment never comes
C24_WaitIsBounded ==
    (/\ pc["http1"].at = "waiting"
     /\ pc["http1"].tokens[pc["http1"].waited + 1].Qos > 0)
    => ENABLED WaitToken("http1")

\* C25: whenever the client is connected and the subscriptions of the connect
\* have been made, every entry that subscribes is subscribed, also after the
\* client has connected again by itself
C25_SubscribedWhenConnected ==
    (pc["mqtt"].at = "connected" /\ ~pc["mqtt"].fresh)
    => \A path \in DOMAIN Paths : \A i \in DOMAIN Paths[path] :
          Paths[path][i].PublishType \in {Sub, PubSub}
          => <<path, i>> \in pc["mqtt"].subscribed


\* C26: the tokens taken from the URL of a request are those of the path after
\* /model, or of the alias after /node, with the prefix removed as a whole, so
\* a POST writes at the path its URL names
C26_UrlAddressesPath ==
    /\ \A q \in {P_ry, P_rf, P_s, East} :
          extractPathTokens(Url(ModelPrefix, q), ModelPrefix) = Split(q)
    /\ \A a \in {K, <<"e">> \o K, X} :
          extractPathTokens(Url(NodePrefix, a), NodePrefix) = <<a>>
    /\ last.op = "post" => last.path \in {Split(q) : q \in {P_ry, P_rf, P_s, East}}


C28_AppliedOnce ==
    [][(/\ last'.op = "get" /\ last'.path = Split(P_rf) /\ last'.err = NoErr
        /\ last.op \in {"init", "post"} /\ last.err = NoErr
        /\ last.op = "post" => last.path = Split(P_rf))
       => last'.v = Str(<<"$", IF last.op = "init" THEN Num(5) ELSE last.value,
                         ".00">>)]_vars

\* C29: a read fails with the circular dependency error only for a path whose
\* resolve comes back to it (r/c, a parameter of itself): reads of s and of r/f,
\* which depend on no transformation, never do, whatever other requests are in
\* progress
C29_CircularOnlyOnReentry ==
    (last.op = "get" /\ last.err = ErrCircular) => Join(last.path) = P_rc


\* C30: where s is computed from the mapping r and r/c, beneath r, from s, no
\* resolve of s can resolve its parameter: a GET of s fails and no value is
\* ever cached for s
C30_NoResultFromFailedNested ==
    P_rc \in DOMAIN Transformations
    => /\ P_s \notin DOMAIN transformationCache
       /\ (last.op = "get" /\ last.path = Split(P_s)) => last.err # NoErr


\* C31: every key of the transformation cache is a path that has a
\* transformation, and a GET that fails, or that reads a path with no
\* transformation, leaves no cache entry for its path
C31_CacheKeysAreTransformations ==
    /\ [](DOMAIN transformationCache \subseteq DOMAIN Transformations)
    /\ [][(/\ last'.op = "get"
           /\ \/ last'.err # NoErr
              \/ Join(last'.path) \notin DOMAIN Transformations)
          => Join(last'.path) \notin DOMAIN transformationCache']_vars

\* C31 happens: a GET of a path with no transformation returned its value and
\* the cache holds entries, none of them for that path
C31_RawReadNotCached ==
    /\ last.op = "get"
    /\ last.err = NoErr
    /\ Join(last.path) \notin DOMAIN Transformations
    /\ transformationCache # EmptyMap
    /\ Join(last.path) \notin DOMAIN transformationCache


\* C32: the publishes PublishMessage issues for a write at the path of a
\* mapping are the same, as a set of topics and payloads, whatever the order in
\* which it takes the mappings
C32_SameForEveryOrder ==
    \A w \in DOMAIN Paths :
       \A ord \in OrdersOf(DOMAIN Paths), m \in Perms(DOMAIN Paths) :
          LET one == PublishMessage(DataModel, ord, Paths, {}, Split(w)).tokens
              other == PublishMessage(DataModel, [ord EXCEPT !.m = m], Paths, {},
                                      Split(w)).tokens
          IN  {[Topic |-> one[j].Topic, payload |-> one[j].payload] :
                  j \in DOMAIN one}
              = {[Topic |-> other[j].Topic, payload |-> other[j].payload] :
                    j \in DOMAIN other}


\* C33: SetModelData at p leaves the raw read of every path q unchanged, value
\* and error, when q neither begins p nor begins with p
C33_SetFrame ==
    [][last'.op = "set"
       => \A q \in TreePaths \cup {<<X>>, <<P_r, P_r>>, <<X, X>>} :
             LET p == last'.path
                 n == IF Len(p) < Len(q) THEN Len(p) ELSE Len(q)
             IN  SubSeq(p, 1, n) # SubSeq(q, 1, n)
                 => GetMapData(Map(Model'), q) = GetMapData(Map(Model), q)]_vars

\* C34: a POST /config that fails, for a body that does not parse or a data
\* model that cannot be saved, leaves the document, the transformations and
\* the nodes of the server as they were; one that succeeds replaces them by
\* those of the body
C34_FailedConfigKeepsModel ==
    [][last'.op = "config"
       => IF last'.err # NoErr
          THEN UNCHANGED <<Model, Transformations, Nodes>>
          ELSE Map(Model') = last'.value]_vars

\* C34 happens: the save of a data model that parsed has failed, and the
\* document is not the one of the request
C34_SaveFailed ==
    /\ last.op = "config"
    /\ last.err # NoErr
    /\ last.value # Null
    /\ Map(Model) # last.value

\* C35: after a POST /config has replaced the data model, a GET does not
\* crash, and a GET of r/f returns the transformation of the new data model
\* applied to its document
C35_ResolvesAfterConfig ==
    last.op = "get"
    => /\ last.err # ErrPanic
       /\ (processingPaths = NilPaths /\ last.path = Split(P_rf) /\ last.err = NoErr)
          => last.v = Str(<<"$", GetMapData(Map(Model), last.path).v, ".00">>)



\* C36: the status of a failed request depends on the kind of the failure and
\* not on the text of the path elements or of the alias: a GET that fails on a
\* missing path element is answered with 404 whatever the elements of its path
\* are, and two requests to unknown aliases, one after the other, are answered
\* with the same status
C36_StatusByKind ==
    /\ [](last.op = "get" /\ last.err = ErrNotFound
          => \A i \in DOMAIN last.path :
                sendErrorResponse(Error(ErrNotFound, last.path[i])) = 404)
    /\ [][(/\ last.op = "node" /\ last.err = ErrNoNode
           /\ last'.op = "node" /\ last'.err = ErrNoNode)
          => sendErrorResponse(Error(ErrNoNode, Join(last'.path)))
                = sendErrorResponse(Error(ErrNoNode, Join(last.path)))]_vars


\* C37: once the start has loaded a configuration with an mqtt section, the
\* bridge has connected, whether the configuration came from config.json or
\* from the file named by CONFIG_FILE_PATH
C37_ConnectedAfterLoad ==
    pc["mqtt"] # Idle => pc["mqtt"].at \in {"connected", "lost"}

====
